---- MODULE Spec2Model ----
(***************************************************************************)
(* pymotego.broadcast.Broadcast: a ThreadPoolExecutor with one worker that *)
(* serialises HTTP calls made through one httpx.Client; every public       *)
(* method returns the concurrent.futures.Future of the call it queued.     *)
(*                                                                         *)
(* The executor, its queue, its worker thread and the Future are the       *)
(* standard library's (CPython concurrent/futures/thread.py and _base.py); *)
(* they are modelled by what they do for the calls broadcast.py makes.     *)
(***************************************************************************)
EXTENDS Naturals, Sequences, FiniteSets

\* ---------------------------------------------------------------- bounds

\* Tasks a run may submit (the executor's queue itself is unbounded).
MaxTasks == 2

\* close() calls a run may make.
MaxCloses == 2

\* ------------------------------------------------------------- constants

\* ThreadPoolExecutor(max_workers=1)
max_workers == 1

\* Caller threads sharing the one Broadcast instance.
Callers == {"c1", "c2"}

\* A str is the sequence of its "/"-separated parts: "default" is
\* <<"default">>, "default/latest" is <<"default", "latest">>, "" is <<"">>.
\* Endpoint names and payloads the callers pass.
Names == {<<"default">>}
Payloads == {[trial_id |-> 1]}

\* Status codes the server may answer with; exceptions the client may raise.
Statuses == {200, 404}
TransportErrors == {"ConnectError"}
ClosedError == "RuntimeError"

\* ------------------------------------------------------------------ URLs

\* A URL is the sequence of its path segments; one ending in "/" ends with
\* the empty segment.  pymotego.constants is not among the sources: the API
\* base is taken to be a directory URL.
DEFAULT_API_BASE_URL == <<"api", "">>

Front(s) == SubSeq(s, 1, Len(s) - 1)

\* urllib.parse.urljoin for a relative reference without dot segments: the
\* reference replaces what follows the base's last "/" (so "" gives the
\* base itself when the base ends in "/").
urljoin(base, ref) == Front(base) \o ref

_BASEURL == urljoin(DEFAULT_API_BASE_URL, <<"broadcast", "data", "">>)

\* ------------------------------------------------------------ work items

\* A request body is a JSON object; a request without one carries NoBody.
NoBody == [none |-> TRUE]

Request(method, url, json) == [method |-> method, url |-> url, json |-> json]

NoRequest == Request("", <<>>, NoBody)

Response(status, request) == [status |-> status, request |-> request]

NoResponse == Response(0, NoRequest)

NoException == "NoException"

\* The four private methods: the request each hands to the client.
_get(path) == Request("GET", urljoin(_BASEURL, path), NoBody)

_post(endpoint, data) == Request("POST", urljoin(_BASEURL, endpoint), data)

_post_create(name) == Request("POST", _BASEURL, [name |-> name])

_delete(name) == Request("DELETE", urljoin(_BASEURL, name), NoBody)

\* _WorkItem(future, fn, args): the bound method and its arguments (one
\* str; _post also has the payload).
WorkItem(fn, arg, data) == [fn |-> fn, arg |-> arg, data |-> data]

\* self.fn(*self.args)
Call(item) ==
    CASE item.fn = "_get" -> _get(item.arg)
      [] item.fn = "_post" -> _post(item.arg, item.data)
      [] item.fn = "_post_create" -> _post_create(item.arg)
      [] item.fn = "_delete" -> _delete(item.arg)

\* ----------------------------------------------------------------- state

VARIABLES
    client,      \* httpx.Client state: "UNOPENED", "OPENED" or "CLOSED"
    shutdown,    \* executor._shutdown
    work_queue,  \* executor._work_queue: task numbers, and None wake-ups
    threads,     \* len(executor._threads)
    worker,      \* the worker thread: [state, item, sendable]
    work_items,  \* work_items[h]: the work item of task h
    futures,     \* futures[h]: task h's Future: [state, result, exception]
    calls,       \* the calls the client received, in order: [task, request, result, exception]
    resolved,    \* task numbers in the order the worker resolved their futures
    pc,          \* pc[c]: where caller c is: "idle", "closing" or "waiting"
    waitOn,      \* waitOn[c]: the future caller c is blocked on (0: none)
    ret          \* what the last call to return to a caller returned or raised

vars == <<client, shutdown, work_queue, threads, worker, work_items, futures,
          calls, resolved, pc, waitOn, ret>>

\* Tasks are numbered in the order submit accepted them.
Handles == 1..Len(futures)

\* The wake-up shutdown() puts on the queue (task numbers start at 1).
None == 0

PendingFuture == [state |-> "PENDING", result |-> NoResponse, exception |-> NoException]

\* A call's return to its caller: the operation, the future it returned or
\* was made on (0: none), the exception raised and the response returned.
Return(op, h, raised, value) == [op |-> op, h |-> h, raised |-> raised, value |-> value]

NoReturn == Return("none", 0, NoException, NoResponse)

Waiting == [state |-> "waiting", item |-> 0, sendable |-> FALSE]

NoWorker == [state |-> "none", item |-> 0, sendable |-> FALSE]

Init ==
    /\ client = "UNOPENED"
    /\ shutdown = FALSE
    /\ work_queue = <<>>
    /\ threads = 0
    /\ worker = NoWorker
    /\ work_items = <<>>
    /\ futures = <<>>
    /\ calls = <<>>
    /\ resolved = <<>>
    /\ pc = [c \in Callers |-> "idle"]
    /\ waitOn = [c \in Callers |-> 0]
    /\ ret = NoReturn

\* ------------------------------------------------------------ the Future

Done(f) == f.state \in {"FINISHED", "CANCELLED", "CANCELLED_AND_NOTIFIED"}

Cancelled(f) == f.state \in {"CANCELLED", "CANCELLED_AND_NOTIFIED"}

\* What Future.result() gives for a future that is done: the response it
\* returns, or the exception it raises.
Outcome(f) ==
    IF Cancelled(f) THEN [result |-> NoResponse, exception |-> "CancelledError"]
    ELSE [result |-> f.result, exception |-> f.exception]

\* Future.set_result / Future.set_exception, as _WorkItem.run calls them.
set_result(f, response) ==
    [state |-> "FINISHED", result |-> response, exception |-> NoException]

set_exception(f, exc) ==
    [state |-> "FINISHED", result |-> NoResponse, exception |-> exc]

\* ------------------------------------------------------ the executor's queue

\* Mutant: put at the head (a stack).
queue_put_lifo(q, x) == <<x>> \o q

\* queue.SimpleQueue: put at the tail, get from the head.
queue_put(q, x) == Append(q, x)

queue_get(q) == [item |-> Head(q), rest |-> Tail(q)]

\* Wake-ups on the queue.
NoneCount == Cardinality({i \in 1..Len(work_queue) : work_queue[i] = None})

\* ------------------------------------------------- ThreadPoolExecutor.submit

\* Mutant: a queue of one slot; submit waits while the slot is taken.
submit_bounded(c, item) ==
    /\ pc[c] = "idle"
    /\ IF shutdown
       THEN /\ ret' = Return("submit", 0, "RuntimeError", NoResponse)
            /\ UNCHANGED <<work_queue, threads, worker, work_items, futures>>
       ELSE /\ Len(futures) < MaxTasks
            /\ Len(work_queue) < 1
            /\ futures' = Append(futures, PendingFuture)
            /\ work_items' = Append(work_items, item)
            /\ work_queue' = queue_put(work_queue, Len(futures) + 1)
            /\ threads' = IF threads < max_workers THEN threads + 1 ELSE threads
            /\ worker' = IF threads < max_workers THEN Waiting ELSE worker
            /\ ret' = Return("submit", Len(futures) + 1, NoException, NoResponse)
    /\ UNCHANGED <<client, shutdown, calls, resolved, pc, waitOn>>

\* Mutant: no check of the shutdown flag.
submit_unchecked(c, item) ==
    /\ pc[c] = "idle"
    /\ Len(futures) < MaxTasks
    /\ futures' = Append(futures, PendingFuture)
    /\ work_items' = Append(work_items, item)
    /\ work_queue' = queue_put(work_queue, Len(futures) + 1)
    /\ threads' = IF threads < max_workers THEN threads + 1 ELSE threads
    /\ worker' = IF threads < max_workers THEN Waiting ELSE worker
    /\ ret' = Return("submit", Len(futures) + 1, NoException, NoResponse)
    /\ UNCHANGED <<client, shutdown, calls, resolved, pc, waitOn>>

\* Mutant: tasks are refused only once the worker thread has returned.
submit_until_worker_exit(c, item) ==
    /\ pc[c] = "idle"
    /\ IF shutdown /\ worker.state \in {"none", "exited"}
       THEN /\ ret' = Return("submit", 0, "RuntimeError", NoResponse)
            /\ UNCHANGED <<work_queue, threads, worker, work_items, futures>>
       ELSE /\ Len(futures) < MaxTasks
            /\ futures' = Append(futures, PendingFuture)
            /\ work_items' = Append(work_items, item)
            /\ work_queue' = queue_put(work_queue, Len(futures) + 1)
            /\ threads' = IF threads < max_workers THEN threads + 1 ELSE threads
            /\ worker' = IF threads < max_workers THEN Waiting ELSE worker
            /\ ret' = Return("submit", Len(futures) + 1, NoException, NoResponse)
    /\ UNCHANGED <<client, shutdown, calls, resolved, pc, waitOn>>

\* Mutant: every submit starts another worker thread.
submit_spawning(c, item) ==
    /\ pc[c] = "idle"
    /\ IF shutdown
       THEN /\ ret' = Return("submit", 0, "RuntimeError", NoResponse)
            /\ UNCHANGED <<work_queue, threads, worker, work_items, futures>>
       ELSE /\ Len(futures) < MaxTasks
            /\ futures' = Append(futures, PendingFuture)
            /\ work_items' = Append(work_items, item)
            /\ work_queue' = queue_put(work_queue, Len(futures) + 1)
            /\ threads' = threads + 1
            /\ worker' = IF threads < max_workers THEN Waiting ELSE worker
            /\ ret' = Return("submit", Len(futures) + 1, NoException, NoResponse)
    /\ UNCHANGED <<client, shutdown, calls, resolved, pc, waitOn>>

\* executor.submit(fn, *args): refused with RuntimeError once the executor
\* is shut down; otherwise a new pending Future, its work item at the tail
\* of the queue, and the worker thread started if there is none yet.
submit(c, item) ==
    /\ pc[c] = "idle"
    /\ IF shutdown
       THEN /\ ret' = Return("submit", 0, "RuntimeError", NoResponse)
            /\ UNCHANGED <<work_queue, threads, worker, work_items, futures>>
       ELSE /\ Len(futures) < MaxTasks
            /\ futures' = Append(futures, PendingFuture)
            /\ work_items' = Append(work_items, item)
            /\ work_queue' = queue_put(work_queue, Len(futures) + 1)
            /\ threads' = IF threads < max_workers THEN threads + 1 ELSE threads
            /\ worker' = IF threads < max_workers THEN Waiting ELSE worker
            /\ ret' = Return("submit", Len(futures) + 1, NoException, NoResponse)
    /\ UNCHANGED <<client, shutdown, calls, resolved, pc, waitOn>>

\* ------------------------------------------------- Broadcast's public methods

send(c, data, endpoint) == submit(c, WorkItem("_post", endpoint, data))

create(c, name) == submit(c, WorkItem("_post_create", name, NoBody))

delete(c, name) == submit(c, WorkItem("_delete", name, NoBody))

list(c) == submit(c, WorkItem("_get", <<"">>, NoBody))

\* Mutant: the "/latest" suffix is forgotten.
latest_no_suffix(c, endpoint) == submit(c, WorkItem("_get", endpoint, NoBody))

latest(c, endpoint) == submit(c, WorkItem("_get", endpoint \o <<"latest">>, NoBody))

\* send(data) and latest(): endpoint: str = "default"
send_default(c, data) == send(c, data, <<"default">>)

latest_default(c) == latest(c, <<"default">>)

\* Mutant: closing a client that is already closed raises, and close()
\* ends there.
close_client_raising(c) ==
    /\ pc[c] = "idle"
    /\ NoneCount + Cardinality({d \in Callers : pc[d] = "closing"}) < MaxCloses
    /\ IF client = "CLOSED"
       THEN /\ ret' = Return("close", 0, "RuntimeError", NoResponse)
            /\ UNCHANGED <<client, pc>>
       ELSE /\ client' = "CLOSED"
            /\ pc' = [pc EXCEPT ![c] = "closing"]
            /\ ret' = ret
    /\ UNCHANGED <<shutdown, work_queue, threads, worker, work_items, futures,
                   calls, resolved, waitOn>>

\* close(), first statement: self.client.close()
close_client(c) ==
    /\ pc[c] = "idle"
    /\ NoneCount + Cardinality({d \in Callers : pc[d] = "closing"}) < MaxCloses
    /\ client' = "CLOSED"
    /\ pc' = [pc EXCEPT ![c] = "closing"]
    /\ UNCHANGED <<shutdown, work_queue, threads, worker, work_items, futures,
                   calls, resolved, waitOn, ret>>

\* Mutant: shutdown abandons the work items still queued.
shutdown_executor_abandoning(c) ==
    /\ pc[c] = "closing"
    /\ shutdown' = TRUE
    /\ work_queue' = <<None>>
    /\ pc' = [pc EXCEPT ![c] = "idle"]
    /\ ret' = Return("close", 0, NoException, NoResponse)
    /\ UNCHANGED <<client, threads, worker, work_items, futures, calls,
                   resolved, waitOn>>

\* Mutant: shutdown(wait=True) returns only when the worker is through.
shutdown_executor_wait(c) ==
    /\ pc[c] = "closing"
    /\ worker.state # "running"
    /\ \A i \in 1..Len(work_queue) : work_queue[i] = None
    /\ shutdown' = TRUE
    /\ work_queue' = queue_put(work_queue, None)
    /\ pc' = [pc EXCEPT ![c] = "idle"]
    /\ ret' = Return("close", 0, NoException, NoResponse)
    /\ UNCHANGED <<client, threads, worker, work_items, futures, calls,
                   resolved, waitOn>>

\* Mutant: the wake-up is put at the head of the queue.
shutdown_executor_jumping(c) ==
    /\ pc[c] = "closing"
    /\ shutdown' = TRUE
    /\ work_queue' = <<None>> \o work_queue
    /\ pc' = [pc EXCEPT ![c] = "idle"]
    /\ ret' = Return("close", 0, NoException, NoResponse)
    /\ UNCHANGED <<client, threads, worker, work_items, futures, calls,
                   resolved, waitOn>>

\* close(), second statement: self.executor.shutdown(wait=False) sets the
\* flag and puts one wake-up on the queue; it joins no thread and cancels
\* no future.
shutdown_executor(c) ==
    /\ pc[c] = "closing"
    /\ shutdown' = TRUE
    /\ work_queue' = queue_put(work_queue, None)
    /\ pc' = [pc EXCEPT ![c] = "idle"]
    /\ ret' = Return("close", 0, NoException, NoResponse)
    /\ UNCHANGED <<client, threads, worker, work_items, futures, calls,
                   resolved, waitOn>>

\* ------------------------------------------- the caller's side of a Future

\* Mutant: a running future can be cancelled too.
cancel_running(c, h) ==
    /\ pc[c] = "idle"
    /\ h \in Handles
    /\ futures[h].state \in {"PENDING", "RUNNING"}
    /\ futures' = [futures EXCEPT ![h].state = "CANCELLED"]
    /\ UNCHANGED <<client, shutdown, work_queue, threads, worker, work_items,
                   calls, resolved, pc, waitOn, ret>>

\* Mutant: a finished future can be cancelled too.
cancel_finished(c, h) ==
    /\ pc[c] = "idle"
    /\ h \in Handles
    /\ futures[h].state \in {"PENDING", "FINISHED"}
    /\ futures' = [futures EXCEPT ![h].state = "CANCELLED"]
    /\ UNCHANGED <<client, shutdown, work_queue, threads, worker, work_items,
                   calls, resolved, pc, waitOn, ret>>

\* Future.cancel(): a future that is running or finished is left alone
\* (returns False); a pending one becomes CANCELLED.
cancel(c, h) ==
    /\ pc[c] = "idle"
    /\ h \in Handles
    /\ futures[h].state = "PENDING"
    /\ futures' = [futures EXCEPT ![h].state = "CANCELLED"]
    /\ UNCHANGED <<client, shutdown, work_queue, threads, worker, work_items,
                   calls, resolved, pc, waitOn, ret>>

\* Future.result() on a future that is done: returns its response or raises
\* its exception at once.
result(c, h) ==
    /\ pc[c] = "idle"
    /\ h \in Handles
    /\ Done(futures[h])
    /\ ret' = Return("result", h, Outcome(futures[h]).exception,
                     Outcome(futures[h]).result)
    /\ UNCHANGED <<client, shutdown, work_queue, threads, worker, work_items,
                   futures, calls, resolved, pc, waitOn>>

\* Future.result() on a future that is not done: the calling thread blocks.
result_block(c, h) ==
    /\ pc[c] = "idle"
    /\ h \in Handles
    /\ ~Done(futures[h])
    /\ pc' = [pc EXCEPT ![c] = "waiting"]
    /\ waitOn' = [waitOn EXCEPT ![c] = h]
    /\ UNCHANGED <<client, shutdown, work_queue, threads, worker, work_items,
                   futures, calls, resolved, ret>>

\* The blocked result() call returns once the future is done.
result_wakeup(c) ==
    /\ pc[c] = "waiting"
    /\ Done(futures[waitOn[c]])
    /\ ret' = Return("result", waitOn[c], Outcome(futures[waitOn[c]]).exception,
                     Outcome(futures[waitOn[c]]).result)
    /\ pc' = [pc EXCEPT ![c] = "idle"]
    /\ waitOn' = [waitOn EXCEPT ![c] = 0]
    /\ UNCHANGED <<client, shutdown, work_queue, threads, worker, work_items,
                   futures, calls, resolved>>

\* ------------------------------------------------------ the worker thread

\* Mutant: the next work item is taken while a call is still in flight.
worker_free_overlapping == worker.state \in {"waiting", "running"}

\* Mutant: a thread blocked in result() holds what the worker needs to take
\* the next work item.
worker_free_unless_awaited ==
    /\ worker.state = "waiting"
    /\ \A c \in Callers : pc[c] # "waiting"

\* The one worker runs work items one after the other: it takes the next
\* only when work_item.run() has returned.
worker_free == worker.state = "waiting"

\* The work item the worker runs for the task it took from the queue.
run_item(h) == work_items[h]

\* Mutant: the outcome goes to the future submitted last.
running_future_latest == Len(futures)

\* self.future of the work item being run.
running_future == worker.item

\* Mutant: the worker's call opens the client again after close().
worker_run_reopening ==
    /\ worker_free
    /\ work_queue # <<>>
    /\ queue_get(work_queue).item # None
    /\ LET h == queue_get(work_queue).item IN
       /\ work_queue' = queue_get(work_queue).rest
       /\ IF futures[h].state = "CANCELLED"
          THEN /\ futures' = [futures EXCEPT ![h].state = "CANCELLED_AND_NOTIFIED"]
               /\ UNCHANGED <<client, worker, calls>>
          ELSE /\ futures' = [futures EXCEPT ![h].state = "RUNNING"]
               /\ calls' = Append(calls, [task |-> h, request |-> Call(run_item(h)),
                                          result |-> NoResponse,
                                          exception |-> NoException])
               /\ worker' = [state |-> "running", item |-> h, sendable |-> TRUE]
               /\ client' = "OPENED"
    /\ UNCHANGED <<shutdown, threads, work_items, resolved, pc, waitOn, ret>>

\* Mutant: the client sends whether it was closed or not.
worker_run_ignoring_close ==
    /\ worker_free
    /\ work_queue # <<>>
    /\ queue_get(work_queue).item # None
    /\ LET h == queue_get(work_queue).item IN
       /\ work_queue' = queue_get(work_queue).rest
       /\ IF futures[h].state = "CANCELLED"
          THEN /\ futures' = [futures EXCEPT ![h].state = "CANCELLED_AND_NOTIFIED"]
               /\ UNCHANGED <<client, worker, calls>>
          ELSE /\ futures' = [futures EXCEPT ![h].state = "RUNNING"]
               /\ calls' = Append(calls, [task |-> h, request |-> Call(run_item(h)),
                                          result |-> NoResponse,
                                          exception |-> NoException])
               /\ worker' = [state |-> "running", item |-> h, sendable |-> TRUE]
               /\ client' = IF client = "CLOSED" THEN "CLOSED" ELSE "OPENED"
    /\ UNCHANGED <<shutdown, threads, work_items, resolved, pc, waitOn, ret>>

\* _worker takes the head of the queue; for a work item, _WorkItem.run
\* drops it if its future was cancelled, and otherwise marks the future
\* running and calls the private method, which hands the request to the
\* client.  httpx refuses to send on a closed client.
worker_run ==
    /\ worker_free
    /\ work_queue # <<>>
    /\ queue_get(work_queue).item # None
    /\ LET h == queue_get(work_queue).item IN
       /\ work_queue' = queue_get(work_queue).rest
       /\ IF futures[h].state = "CANCELLED"
          THEN /\ futures' = [futures EXCEPT ![h].state = "CANCELLED_AND_NOTIFIED"]
               /\ UNCHANGED <<client, worker, calls>>
          ELSE /\ futures' = [futures EXCEPT ![h].state = "RUNNING"]
               /\ calls' = Append(calls, [task |-> h, request |-> Call(run_item(h)),
                                          result |-> NoResponse,
                                          exception |-> NoException])
               /\ worker' = [state |-> "running", item |-> h,
                             sendable |-> client # "CLOSED"]
               /\ client' = IF client = "CLOSED" THEN "CLOSED" ELSE "OPENED"
    /\ UNCHANGED <<shutdown, threads, work_items, resolved, pc, waitOn, ret>>

\* Mutant: a response with an error status is raised (raise_for_status).
transport_return_raise_for_status(status) ==
    /\ worker.state = "running"
    /\ worker.sendable
    /\ LET response == Response(status, calls[Len(calls)].request) IN
       /\ calls' = [calls EXCEPT ![Len(calls)].result = response]
       /\ futures' = [futures EXCEPT ![running_future] =
                         IF status >= 400 THEN set_exception(@, "HTTPStatusError")
                         ELSE set_result(@, response)]
    /\ resolved' = Append(resolved, running_future)
    /\ worker' = Waiting
    /\ UNCHANGED <<client, shutdown, work_queue, threads, work_items,
                   pc, waitOn, ret>>

\* The client call returns a response: _WorkItem.run stores it in the
\* future of the work item it is running.
transport_return(status) ==
    /\ worker.state = "running"
    /\ worker.sendable
    /\ LET response == Response(status, calls[Len(calls)].request) IN
       /\ calls' = [calls EXCEPT ![Len(calls)].result = response]
       /\ futures' = [futures EXCEPT ![running_future] = set_result(@, response)]
    /\ resolved' = Append(resolved, running_future)
    /\ worker' = Waiting
    /\ UNCHANGED <<client, shutdown, work_queue, threads, work_items,
                   pc, waitOn, ret>>

\* Mutant: a call that raised is queued again (a retry).
transport_raise_retry(exc) ==
    /\ worker.state = "running"
    /\ exc = ClosedError <=> ~worker.sendable
    /\ calls' = [calls EXCEPT ![Len(calls)].exception = exc]
    /\ futures' = [futures EXCEPT ![running_future] = set_exception(@, exc)]
    /\ resolved' = Append(resolved, running_future)
    /\ work_queue' = queue_put(work_queue, worker.item)
    /\ worker' = Waiting
    /\ UNCHANGED <<client, shutdown, threads, work_items, pc, waitOn, ret>>

\* Mutant: the exception leaves the worker loop and ends the thread.
transport_raise_fatal(exc) ==
    /\ worker.state = "running"
    /\ exc = ClosedError <=> ~worker.sendable
    /\ calls' = [calls EXCEPT ![Len(calls)].exception = exc]
    /\ futures' = [futures EXCEPT ![running_future] = set_exception(@, exc)]
    /\ resolved' = Append(resolved, running_future)
    /\ worker' = [state |-> "exited", item |-> 0, sendable |-> FALSE]
    /\ UNCHANGED <<client, shutdown, work_queue, threads, work_items,
                   pc, waitOn, ret>>

\* The client call raises: _WorkItem.run stores the exception in the future
\* and the worker goes on to the next work item.
transport_raise(exc) ==
    /\ worker.state = "running"
    /\ exc = ClosedError <=> ~worker.sendable
    /\ calls' = [calls EXCEPT ![Len(calls)].exception = exc]
    /\ futures' = [futures EXCEPT ![running_future] = set_exception(@, exc)]
    /\ resolved' = Append(resolved, running_future)
    /\ worker' = Waiting
    /\ UNCHANGED <<client, shutdown, work_queue, threads, work_items,
                   pc, waitOn, ret>>

\* _worker takes a wake-up: if the executor is shut down it puts the
\* wake-up back for other workers and returns; otherwise it waits again.
worker_wakeup ==
    /\ worker_free
    /\ work_queue # <<>>
    /\ queue_get(work_queue).item = None
    /\ IF shutdown
       THEN /\ work_queue' = queue_put(queue_get(work_queue).rest, None)
            /\ worker' = [state |-> "exited", item |-> 0, sendable |-> FALSE]
       ELSE /\ work_queue' = queue_get(work_queue).rest
            /\ UNCHANGED worker
    /\ UNCHANGED <<client, shutdown, threads, work_items, futures, calls,
                   resolved, pc, waitOn, ret>>

\* ------------------------------------------------------- the specification

\* The worker thread's steps.
WorkerNext ==
    \/ worker_run
    \/ \E s \in Statuses : transport_return(s)
    \/ \E e \in TransportErrors \cup {ClosedError} : transport_raise(e)
    \/ worker_wakeup

\* The steps that change the dispatcher: the callers submit, close and
\* cancel; the worker runs.
CoreNext ==
    \/ \E c \in Callers, d \in Payloads, e \in Names : send(c, d, e)
    \/ \E c \in Callers, n \in Names : create(c, n)
    \/ \E c \in Callers, n \in Names : delete(c, n)
    \/ \E c \in Callers : list(c)
    \/ \E c \in Callers, e \in Names : latest(c, e)
    \/ \E c \in Callers : close_client(c)
    \/ \E c \in Callers : shutdown_executor(c)
    \/ \E c \in Callers, h \in 1..MaxTasks : cancel(c, h)
    \/ WorkerNext

\* The callers also read the futures that are done.  A caller blocked in
\* result() takes no step until it is released, which an idle caller may do
\* as well: the blocking calls are left to WaitSpec.
Next ==
    \/ CoreNext
    \/ \E c \in Callers, h \in 1..MaxTasks : result(c, h)

Spec == Init /\ [][Next]_vars

\* The worker thread is scheduled, and every client call returns or raises.
\* Reading a future changes nothing but what its reader has seen, and is
\* left out.
FairSpec == Init /\ [][CoreNext]_vars /\ WF_vars(WorkerNext)

\* The thread that made the instance, when no other thread uses it.
Main == {"c1"}

\* The dispatcher with a thread that blocks in result() on futures not yet
\* done, as the example does after each send, while the other thread goes
\* on calling the public methods.
WaitNext ==
    \/ CoreNext
    \/ \E c \in Main, h \in 1..MaxTasks : result_block(c, h)
    \/ \E c \in Main : result_wakeup(c)

WaitSpec == Init /\ [][WaitNext]_vars

\* Endpoint names for the runs that tell one endpoint from another.
MoreNames == Names \cup {<<"trials">>}

\* The thread that made the instance calling the public methods with every argument they take,
\* given or defaulted, and close(); the worker.
MethodsNext ==
    \/ \E c \in Main, d \in Payloads, e \in MoreNames : send(c, d, e)
    \/ \E c \in Main, d \in Payloads : send_default(c, d)
    \/ \E c \in Main, n \in MoreNames : create(c, n)
    \/ \E c \in Main, n \in MoreNames : delete(c, n)
    \/ \E c \in Main : list(c)
    \/ \E c \in Main, e \in MoreNames : latest(c, e)
    \/ \E c \in Main : latest_default(c)
    \/ \E c \in Main : close_client(c)
    \/ \E c \in Main : shutdown_executor(c)
    \/ WorkerNext

MethodsSpec == Init /\ [][MethodsNext]_vars

\* ---------------------------------------------------------------- claims

Resolved(h) == h \in Handles /\ futures[h].state = "FINISHED"

\* The calls the client received for task h.
CallsOf(h) == {i \in 1..Len(calls) : calls[i].task = h}

\* Nothing is left for the worker to do: no work item on the queue, no call
\* in flight.
Quiescent ==
    /\ worker.state \in {"waiting", "exited"}
    /\ \A i \in 1..Len(work_queue) : work_queue[i] = None

\* C1: the futures are resolved in the order submit accepted their tasks: the
\* order of resolution is increasing in the task number, and when a task's
\* call has started no task accepted before it is still waiting (each is
\* resolved, or was cancelled by its caller and dropped).
C1_FIFOResolution ==
    /\ \A i, j \in 1..Len(resolved) : i < j => resolved[i] < resolved[j]
    /\ \A h \in Handles : Resolved(h) <=> \E i \in 1..Len(resolved) : resolved[i] = h
    /\ \A h \in Handles :
          futures[h].state = "FINISHED"
             => \A g \in 1..(h - 1) :
                   futures[g].state \in {"FINISHED", "CANCELLED_AND_NOTIFIED"}

\* Two different tasks were accepted and both are resolved, in that order.
C1_Witness ==
    /\ resolved = <<1, 2>>
    /\ Len(calls) = 2
    /\ work_items[1] # work_items[2]

\* C3: at most one task is in its client call at any time, it is the one the
\* worker holds, and every call but the last one made has finished with its
\* future resolved.
C3_NoOverlap ==
    /\ Cardinality({h \in Handles : futures[h].state = "RUNNING"}) <= 1
    /\ \A h \in Handles :
          futures[h].state = "RUNNING"
             <=> (worker.state = "running" /\ worker.item = h)
    /\ \A i \in 1..Len(calls) :
          i < Len(calls) => futures[calls[i].task].state = "FINISHED"

\* A call is in flight while a second task waits on the queue behind it.
C3_Witness ==
    /\ worker.state = "running"
    /\ worker.item = 1
    /\ work_queue = <<2>>
    /\ futures[2].state = "PENDING"

\* C10: a resolved future holds what the client call made for its own task
\* returned or raised: the one call whose request is the task's own, with
\* that call's response or exception.
C10_OutcomeCorrespondence ==
    \A h \in Handles :
       futures[h].state = "FINISHED"
          => /\ Cardinality(CallsOf(h)) = 1
             /\ \A i \in CallsOf(h) :
                   /\ calls[i].request = Call(work_items[h])
                   /\ calls[i].result = futures[h].result
                   /\ calls[i].exception = futures[h].exception
             /\ futures[h].exception = NoException
                   => futures[h].result.request = Call(work_items[h])
             /\ (futures[h].exception = NoException)
                   # (futures[h].result = NoResponse)

\* Two different tasks resolved with different outcomes, each with its own.
C10_Witness ==
    /\ Len(futures) = 2
    /\ futures[1].state = "FINISHED"
    /\ futures[2].state = "FINISHED"
    /\ futures[1].exception = "ConnectError"
    /\ futures[2].result = Response(404, Call(work_items[2]))
    /\ work_items[1] # work_items[2]


\* C9 (as amended): every accepted task's future is eventually done: the
\* worker resolves it, or a caller had cancelled it while it was queued;
\* no future stays pending or running for ever, close() or not.
C9_EventuallyDone ==
    \A h \in 1..MaxTasks : (h \in Handles) ~> (h \in Handles /\ Done(futures[h]))
\* C2 (as claimed): no task is handed to the client twice, and once the
\* worker has nothing left to do every accepted task has been handed to it
\* exactly once: N accepted tasks, N calls.
C2_EveryTaskExecutedOnce ==
    /\ \A h \in Handles : Cardinality(CallsOf(h)) <= 1
    /\ Quiescent => /\ \A h \in Handles : Cardinality(CallsOf(h)) = 1
                    /\ Len(calls) = Len(futures)

\* C2 (as amended): no task is handed to the client twice; the call made
\* for a task carries the request of its own work item; a task has its one
\* call exactly when its future is running or resolved, and once the worker
\* has nothing left to do every accepted task has had its one call, except
\* those whose future a caller cancelled while they were queued, which have
\* none.
C2_SingleExecution ==
    /\ \A h \in Handles : Cardinality(CallsOf(h)) <= 1
    /\ \A i \in 1..Len(calls) :
          /\ calls[i].task \in Handles
          /\ calls[i].request = Call(work_items[calls[i].task])
    /\ \A h \in Handles :
          Cardinality(CallsOf(h)) = 1 <=> futures[h].state \in {"RUNNING", "FINISHED"}
    /\ Quiescent
          => /\ \A h \in Handles :
                   futures[h].state \in {"FINISHED", "CANCELLED_AND_NOTIFIED"}
             /\ Len(calls) = Cardinality({h \in Handles : ~Cancelled(futures[h])})

\* Both tasks were accepted and the worker is through: one was called once
\* and resolved, the other was cancelled while queued and never called.
C2_Witness ==
    /\ Quiescent
    /\ Len(futures) = 2
    /\ futures[1].state = "FINISHED"
    /\ futures[2].state = "CANCELLED_AND_NOTIFIED"
    /\ Len(calls) = 1
    /\ calls[1].request = Call(work_items[1])

\* A step in which the call in flight raises.
RaiseStep ==
    /\ worker.state = "running"
    /\ futures'[worker.item].state = "FINISHED"
    /\ futures'[worker.item].exception # NoException

\* C4: a call that raises resolves the future of its own task with the
\* exception and changes no other future; it leaves the queue as it was and
\* the worker back in its loop, so a task that is not yet taken is never
\* stranded: its work item is on the queue and the worker is alive.
C4_FailureIsolation ==
    /\ [](\A h \in Handles :
             futures[h].state \in {"PENDING", "CANCELLED"}
                => /\ \E i \in 1..Len(work_queue) : work_queue[i] = h
                   /\ worker.state \in {"waiting", "running"})
    /\ [][RaiseStep
             => /\ \A g \in Handles \ {worker.item} : futures'[g] = futures[g]
                /\ work_queue' = work_queue
                /\ worker' = Waiting
                /\ threads' = threads]_vars

\* The first task's call raised; the task behind it was still executed and
\* resolved with its own response.
C4_Witness ==
    /\ resolved = <<1, 2>>
    /\ futures[1].exception = "ConnectError"
    /\ futures[2].exception = NoException
    /\ futures[2].result = Response(200, Call(work_items[2]))

\* C5: a future is resolved at most once; once resolved it never changes
\* again, whatever the callers and the worker do; and what a result() call
\* returned or raised is what the future still holds.
C5_ExactlyOnceResolution ==
    /\ [](\A i, j \in 1..Len(resolved) : resolved[i] = resolved[j] => i = j)
    /\ [](ret.op = "result"
             => /\ Done(futures[ret.h])
                /\ ret.raised = Outcome(futures[ret.h]).exception
                /\ ret.value = Outcome(futures[ret.h]).result)
    /\ [][\A h \in Handles :
             futures[h].state = "FINISHED" => futures'[h] = futures[h]]_vars
    /\ [][(ret' # ret /\ ret'.op = "result") => futures' = futures]_vars

\* A result() call returned the first task's response; both futures are
\* resolved.
C5_Witness ==
    /\ ret.op = "result"
    /\ ret.h = 1
    /\ ret.value = Response(200, Call(work_items[1]))
    /\ resolved = <<1, 2>>

\* The worker starts the call of task h, or stores the outcome of that call.
WorkerStepOn(h) ==
    \/ /\ worker.state = "waiting"
       /\ work_queue # <<>>
       /\ Head(work_queue) = h
       /\ futures[h].state = "PENDING"
       /\ futures'[h].state = "RUNNING"
    \/ /\ worker.state = "running"
       /\ worker.item = h
       /\ futures[h].state = "RUNNING"
       /\ futures'[h].state = "FINISHED"

\* A caller cancels the pending future of task h, which is still queued.
CancelStepOn(h) ==
    /\ futures[h].state = "PENDING"
    /\ futures'[h] = [futures[h] EXCEPT !.state = "CANCELLED"]
    /\ \E i \in 1..Len(work_queue) : work_queue[i] = h
    /\ UNCHANGED <<work_queue, worker, calls, resolved>>

\* The worker takes the work item of a cancelled future and drops it.
DropStepOn(h) ==
    /\ worker.state = "waiting"
    /\ work_queue # <<>>
    /\ Head(work_queue) = h
    /\ futures[h].state = "CANCELLED"
    /\ futures'[h] = [futures[h] EXCEPT !.state = "CANCELLED_AND_NOTIFIED"]
    /\ UNCHANGED <<worker, calls, resolved>>

\* What is on the queue changes only by a put at its tail or by the worker
\* taking its head.
QueueStep ==
    \/ \E x \in 0..MaxTasks : work_queue' = Append(work_queue, x)
    \/ /\ worker.state = "waiting"
       /\ work_queue # <<>>
       /\ \/ work_queue' = Tail(work_queue)
          \/ work_queue' = Append(Tail(work_queue), None)

\* C6 (as claimed): a future changes only when the worker starts its task's
\* call (pending to running) or stores that call's outcome (running to
\* resolved); nothing a caller does changes a future.
C6_OnlyWorkerChangesFutures ==
    [][\A h \in Handles : futures'[h] # futures[h] => WorkerStepOn(h)]_vars

\* C6 (as amended): a future changes only in these ways: the worker starts
\* its task's call, the worker stores that call's outcome, a caller cancels
\* it while it is pending and its work item still queued, or the worker
\* drops the work item of a cancelled future without calling the client.  A
\* future that is running or resolved is changed by no caller, and no
\* caller takes a work item off the queue.
C6_HandleStateMachine ==
    /\ [][\A h \in Handles :
             futures'[h] # futures[h]
                => WorkerStepOn(h) \/ CancelStepOn(h) \/ DropStepOn(h)]_vars
    /\ [][work_queue' # work_queue => QueueStep]_vars
    /\ [](\A h \in Handles : Cancelled(futures[h]) => CallsOf(h) = {})

\* The first task was cancelled while queued and dropped without a call;
\* the second was executed and resolved.
C6_Witness ==
    /\ Len(futures) = 2
    /\ futures[1].state = "CANCELLED_AND_NOTIFIED"
    /\ CallsOf(1) = {}
    /\ futures[2].state = "FINISHED"

\* Each public method, called by an idle caller on a dispatcher that is not
\* shut down, can complete at once.
CanSubmit(c) ==
    /\ \A d \in Payloads, e \in Names : ENABLED send(c, d, e)
    /\ \A n \in Names : ENABLED create(c, n)
    /\ \A n \in Names : ENABLED delete(c, n)
    /\ ENABLED list(c)
    /\ \A e \in Names : ENABLED latest(c, e)

\* C7: while the executor is not shut down, every public method completes
\* in one step of its caller whatever the queue holds and whatever the
\* worker is doing, and the step that returns the new future leaves it
\* pending and involves no step of the worker.
C7_NonBlockingSubmit ==
    /\ [](\A c \in Callers :
             (pc[c] = "idle" /\ ~shutdown /\ Len(futures) < MaxTasks)
                => CanSubmit(c))
    /\ [][(ret' # ret /\ ret'.op = "submit" /\ ret'.raised = NoException)
             => /\ ret'.h = Len(futures) + 1
                /\ futures' = Append(futures, PendingFuture)
                /\ work_queue' = Append(work_queue, ret'.h)
                /\ worker.state # "none" => worker' = worker
                /\ UNCHANGED <<calls, resolved>>]_vars

\* submit has just returned the second future while the worker is in the
\* call of the first.
C7_Witness ==
    /\ ret = Return("submit", 2, NoException, NoResponse)
    /\ worker.state = "running"
    /\ worker.item = 1
    /\ futures[2] = PendingFuture

\* C8 (as claimed): no submit ever raises to its caller.
C8_SubmitNeverRaises == ret.op = "submit" => ret.raised = NoException

\* C8 (as amended): a submit raises to its caller exactly when the executor
\* has been shut down by close(): then it raises RuntimeError, returns no
\* future and queues nothing; before that it returns a new future and does
\* not raise.
C8_SubmitRaisesOnlyAfterShutdown ==
    /\ [](ret.op = "submit" /\ ret.raised # NoException
             => shutdown /\ ret.raised = "RuntimeError" /\ ret.h = 0)
    /\ [][(ret' # ret /\ ret'.op = "submit")
             => IF shutdown
                THEN /\ ret'.raised = "RuntimeError"
                     /\ UNCHANGED <<futures, work_queue, work_items>>
                ELSE /\ ret'.raised = NoException
                     /\ ret'.h = Len(futures')
                     /\ Len(futures') = Len(futures) + 1]_vars

\* A submit returned a future, and a later one, after close(), raised.
C8_Witness ==
    /\ ret = Return("submit", 0, "RuntimeError", NoResponse)
    /\ shutdown
    /\ Len(futures) = 1

\* C9 (as claimed): once the worker has nothing left to do, every accepted
\* task's future is resolved with a response or an exception.
C9_AllResolvedAtQuiescence ==
    Quiescent => \A h \in Handles : futures[h].state = "FINISHED"

\* A close() that found one task in flight or queued behind it: the worker
\* has resolved both futures and returned.
C9_Witness ==
    /\ shutdown
    /\ worker.state = "exited"
    /\ resolved = <<1, 2>>
    /\ futures[2].exception = ClosedError

\* C11: whatever its status code, the response a client call returned is the
\* result of its task's future, unchanged and with no exception; a future
\* holds an exception only when the call made for its task raised, and
\* then the call returned no response.
C11_StatusCodesAreNotFailures ==
    /\ \A i \in 1..Len(calls) :
          calls[i].result # NoResponse
             => /\ calls[i].result.status \in Statuses
                /\ calls[i].exception = NoException
                /\ futures[calls[i].task] =
                      [state |-> "FINISHED", result |-> calls[i].result,
                       exception |-> NoException]
    /\ \A h \in Handles :
          (futures[h].state = "FINISHED" /\ futures[h].exception # NoException)
             => \E i \in CallsOf(h) :
                   /\ calls[i].exception = futures[h].exception
                   /\ calls[i].result = NoResponse

\* Two calls returned, one with status 404: both futures hold the response
\* as their result.
C11_Witness ==
    /\ Len(calls) = 2
    /\ calls[1].result.status = 404
    /\ futures[calls[1].task].result.status = 404
    /\ futures[calls[1].task].exception = NoException
    /\ calls[2].result.status = 200

\* Caller c's close() makes its first step (the client) or its second (the
\* executor), after which it has returned.
ClientCloseStep(c) == pc[c] = "idle" /\ pc'[c] = "closing"

ShutdownStep(c) == pc[c] = "closing" /\ pc'[c] = "idle"

\* C12: close() never waits: an idle caller can start it and a caller that
\* has started it can finish it, whatever is queued and whatever the worker
\* is doing; and neither of its steps changes a future, the worker, the
\* calls made or the work items on the queue (the second only adds a
\* wake-up at the tail).
C12_NonBlockingClose ==
    /\ [](\A c \in Callers :
             (/\ pc[c] = "idle"
              /\ NoneCount + Cardinality({d \in Callers : pc[d] = "closing"})
                    < MaxCloses)
                => ENABLED close_client(c))
    /\ [](\A c \in Callers : pc[c] = "closing" => ENABLED shutdown_executor(c))
    /\ [][\A c \in Callers :
             (ClientCloseStep(c) \/ ShutdownStep(c))
                => /\ UNCHANGED <<futures, worker, calls, resolved, work_items>>
                   /\ ClientCloseStep(c) => work_queue' = work_queue
                   /\ ShutdownStep(c) => work_queue' = Append(work_queue, None)]_vars

\* close() has returned while the first task's call is in flight and the
\* second task is queued: the call is still in flight, the task still
\* queued and pending.
C12_Witness ==
    /\ ret = Return("close", 0, NoException, NoResponse)
    /\ worker.state = "running"
    /\ worker.item = 1
    /\ futures[1].state = "RUNNING"
    /\ work_queue = <<2, None>>
    /\ futures[2].state = "PENDING"

\* The tasks whose work items are on the queue.
QueuedTasks(q) == {q[i] : i \in {j \in 1..Len(q) : q[j] # None}}

\* C13: once a close() has returned the executor stays shut down and the
\* accepted tasks are frozen: no step adds a future, a work item or a task
\* to the queue; a public method called from then on returns no future and
\* changes nothing of the executor, the worker or the calls made; and every
\* call the client receives is for an accepted task.
C13_NoAcceptanceAfterClose ==
    /\ [][shutdown
             => /\ shutdown'
                /\ Len(futures') = Len(futures)
                /\ work_items' = work_items
                /\ QueuedTasks(work_queue') \subseteq QueuedTasks(work_queue)]_vars
    /\ [][(shutdown /\ ret' # ret /\ ret'.op = "submit")
             => /\ ret'.h = 0
                /\ ret'.raised # NoException
                /\ UNCHANGED <<futures, work_items, work_queue, threads, worker,
                               calls, resolved, client>>]_vars
    /\ [](\A i \in 1..Len(calls) : calls[i].task \in Handles)

\* One task was accepted and executed before close(); the worker has since
\* returned, and a public method called after that was refused: still one
\* future, one call, nothing queued.
C13_Witness ==
    /\ shutdown
    /\ worker.state = "exited"
    /\ ret.op = "submit"
    /\ ret.raised = "RuntimeError"
    /\ Len(futures) = 1
    /\ Len(calls) = 1
    /\ QueuedTasks(work_queue) = {}

\* The URL of the collection's member called name: the collection root
\* followed by the name.
MemberURL(name) == SubSeq(_BASEURL, 1, Len(_BASEURL) - 1) \o name

\* A step that queues exactly one new task whose call will hand request to
\* the client, and changes nothing else (the first such step also starts
\* the executor's worker thread).
Submits(request) ==
    /\ futures' = Append(futures, PendingFuture)
    /\ Len(work_items') = Len(work_items) + 1
    /\ SubSeq(work_items', 1, Len(work_items)) = work_items
    /\ Call(work_items'[Len(work_items')]) = request
    /\ work_queue' = Append(work_queue, Len(futures) + 1)
    /\ worker.state # "none" => UNCHANGED <<worker, threads>>
    /\ UNCHANGED <<client, shutdown, calls, resolved, pc, waitOn>>

\* C14: on an executor that is not shut down, each public method queues
\* exactly one task and changes nothing else: send a POST to the named
\* member with the data as body, create a POST to the collection root with
\* body {name: name}, delete a DELETE of the named member, list a GET of
\* the collection root, latest a GET of "latest" under the named member;
\* send and latest without an endpoint address the member "default".  The
\* request the worker later hands to the client is that of the task.
C14_ConvenienceOperations ==
    /\ [][\A c \in Callers :
             ~shutdown
                => /\ \A d \in Payloads, e \in MoreNames :
                         send(c, d, e) => Submits([method |-> "POST",
                                                   url |-> MemberURL(e), json |-> d])
                   /\ \A d \in Payloads :
                         send_default(c, d)
                            => Submits([method |-> "POST",
                                        url |-> MemberURL(<<"default">>), json |-> d])
                   /\ \A n \in MoreNames :
                         create(c, n) => Submits([method |-> "POST", url |-> _BASEURL,
                                                  json |-> [name |-> n]])
                   /\ \A n \in MoreNames :
                         delete(c, n) => Submits([method |-> "DELETE",
                                                  url |-> MemberURL(n), json |-> NoBody])
                   /\ list(c) => Submits([method |-> "GET", url |-> _BASEURL,
                                          json |-> NoBody])
                   /\ \A e \in MoreNames :
                         latest(c, e) => Submits([method |-> "GET",
                                                  url |-> MemberURL(e \o <<"latest">>),
                                                  json |-> NoBody])
                   /\ latest_default(c)
                         => Submits([method |-> "GET",
                                     url |-> MemberURL(<<"default", "latest">>),
                                     json |-> NoBody])]_vars
    /\ [](\A i \in 1..Len(calls) :
             calls[i].request = Call(work_items[calls[i].task]))

\* latest("trials") and then create("trials") were called: the client
\* received a GET of trials/latest and then a POST of {name: "trials"} to
\* the collection root.
C14_Witness ==
    /\ Len(calls) = 2
    /\ calls[1].request = [method |-> "GET", url |-> MemberURL(<<"trials", "latest">>),
                           json |-> NoBody]
    /\ calls[2].request = [method |-> "POST", url |-> _BASEURL,
                           json |-> [name |-> <<"trials">>]]
    /\ futures[2].state = "FINISHED"

\* The worker starts a call.
CallStep == worker.state = "waiting" /\ worker'.state = "running"

\* C15 (as claimed): the client changes only in a step of the worker, so
\* never through a caller.
C15_OnlyWorkerTouchesClient == [][client' # client => CallStep]_vars

\* C15 (as amended): the client is changed by the worker, whose first call
\* opens it, and by close(), whose first statement closes it in the
\* caller's thread whatever is in flight or queued; a closed client stays
\* closed; no public method that queues a task, and not the shutdown of the
\* executor, changes it.
C15_ClientOwnership ==
    /\ [][client' # client
             => \/ CallStep /\ client = "UNOPENED" /\ client' = "OPENED"
                \/ /\ \E c \in Callers : ClientCloseStep(c)
                   /\ client' = "CLOSED"
                   /\ UNCHANGED <<futures, work_queue, worker, calls>>]_vars
    /\ [][(ret' # ret \/ Len(futures') # Len(futures)) => client' = client]_vars
    /\ [][(\E c \in Callers : ShutdownStep(c)) => client' = client]_vars

\* close() has closed the client while the first task's call, started on
\* the open client, is in flight and the second task is queued.
C15_Witness ==
    /\ client = "CLOSED"
    /\ worker.state = "running"
    /\ worker.sendable
    /\ work_queue = <<2>>
    /\ futures[2].state = "PENDING"

\* C16 (as claimed): from construction until close() there is exactly one
\* worker thread, before the first submit too.
C16_OneWorkerFromConstruction ==
    (~shutdown /\ \A c \in Callers : pc[c] # "closing")
       => threads = 1 /\ worker.state \in {"waiting", "running"}

\* C16 (as amended): the executor never has more than one worker thread; it
\* has none until the first task is accepted and one from then on, however
\* many tasks are submitted; and that thread returns only after the
\* executor was shut down.
C16_WorkerLifetime ==
    /\ threads <= max_workers
    /\ threads = (IF Len(futures) = 0 THEN 0 ELSE 1)
    /\ threads = 0 <=> worker.state = "none"
    /\ (~shutdown /\ Len(futures) > 0) => worker.state \in {"waiting", "running"}
    /\ worker.state = "exited" => shutdown

\* Two tasks were submitted and executed and close() was not called: one
\* worker thread, waiting for the next task.
C16_Witness ==
    /\ Len(futures) = 2
    /\ threads = 1
    /\ worker.state = "waiting"
    /\ work_queue = <<>>
    /\ client = "OPENED"
    /\ ~shutdown

\* The worker has something to do: a call in flight, or an entry on the
\* queue to take.
WorkerHasWork ==
    \/ worker.state = "running"
    \/ worker.state = "waiting" /\ work_queue # <<>>

\* C17 (as claimed): a caller blocked in result() is released only when
\* the future it waits on is resolved.
C17_ReleasedOnlyWhenResolved ==
    [][\A c \in Callers :
          (pc[c] = "waiting" /\ pc'[c] = "idle")
             => futures[waitOn[c]].state = "FINISHED"]_vars

\* C17 (as amended): while a caller is blocked in result() on a future,
\* the worker takes every step it could take otherwise, and every other
\* caller can call the public methods and read the futures that are done;
\* the blocked caller stays blocked on that future while it is pending or
\* running and can return as soon as it is done, resolved by the worker or
\* cancelled by another caller; it then gets that future's outcome, and its
\* return changes no future.
C17_WaitingBlocksOnlyTheWaiter ==
    /\ [](\A c \in Callers :
             pc[c] = "waiting"
                => /\ waitOn[c] \in Handles
                   /\ WorkerHasWork => ENABLED WorkerNext
                   /\ \A d \in Callers \ {c} :
                         (pc[d] = "idle" /\ ~shutdown /\ Len(futures) < MaxTasks)
                            => CanSubmit(d)
                   /\ \A d \in Callers \ {c}, h \in Handles :
                         (pc[d] = "idle" /\ Done(futures[h])) => ENABLED result(d, h)
                   /\ Done(futures[waitOn[c]]) <=> ENABLED result_wakeup(c))
    /\ [][\A c \in Callers :
             pc[c] = "waiting"
                => \/ pc'[c] = "waiting" /\ waitOn'[c] = waitOn[c]
                   \/ /\ pc'[c] = "idle"
                      /\ Done(futures[waitOn[c]])
                      /\ ret' = Return("result", waitOn[c],
                                       Outcome(futures[waitOn[c]]).exception,
                                       Outcome(futures[waitOn[c]]).result)
                      /\ futures' = futures]_vars

\* A thread is blocked on the first task's future while that task's call
\* is in flight; meanwhile a second task was submitted and is queued.
C17_Witness ==
    /\ pc["c1"] = "waiting"
    /\ waitOn["c1"] = 1
    /\ futures[1].state = "RUNNING"
    /\ pc["c2"] = "idle"
    /\ Len(futures) = 2
    /\ work_queue = <<2>>

\* C18: close() closes the client before it shuts the executor down, so
\* whenever a close() is between its two statements or has returned the
\* client is closed; a task still pending then is still on the queue with
\* the worker alive, and when the worker takes it the call is made all the
\* same; a call started on the closed client ends by raising, and its
\* future is resolved with that error and never with a response.
C18_ClosedClientFailsLaterTasks ==
    /\ []((shutdown \/ \E c \in Callers : pc[c] = "closing") => client = "CLOSED")
    /\ [](\A h \in Handles :
             futures[h].state = "PENDING"
                => /\ h \in QueuedTasks(work_queue)
                   /\ worker.state \in {"waiting", "running"})
    /\ [][CallStep
             => /\ Len(calls') = Len(calls) + 1
                /\ calls'[Len(calls')].task = Head(work_queue)
                /\ worker'.sendable = (client # "CLOSED")]_vars
    /\ [](worker.state = "running" /\ ~worker.sendable => client = "CLOSED")
    /\ [][(worker.state = "running" /\ ~worker.sendable /\ worker'.state # "running")
             => /\ futures'[worker.item] =
                      [state |-> "FINISHED", result |-> NoResponse,
                       exception |-> ClosedError]
                /\ calls'[Len(calls)].result = NoResponse
                /\ calls'[Len(calls)].exception = ClosedError]_vars

\* A close() is between its two statements: the first task got its
\* response from the client while it was open; the second, queued when the
\* client was closed or submitted since, was called and resolved with the
\* closed client's error.
C18_Witness ==
    /\ pc["c1"] = "closing"
    /\ ~shutdown
    /\ Len(futures) = 2
    /\ futures[1].result.status = 200
    /\ futures[2].state = "FINISHED"
    /\ futures[2].exception = ClosedError
    /\ Len(calls) = 2

\* C19 (as claimed): the worker has returned only when every accepted
\* task's future is resolved.
C19_ExitsOnlyWithAllResolved ==
    worker.state = "exited" => \A h \in Handles : futures[h].state = "FINISHED"

\* C19 (as amended): once the executor is shut down the worker thread, if
\* one was ever started, eventually returns, and for good; when it has
\* returned no accepted task is left on the queue, and every accepted
\* task's future is resolved or, for a task a caller cancelled while it was
\* queued, cancelled and dropped.
C19_WorkerTerminatesAfterDraining ==
    /\ shutdown ~> worker.state \in {"none", "exited"}
    /\ [](worker.state = "exited"
             => /\ shutdown
                /\ QueuedTasks(work_queue) = {}
                /\ \A h \in Handles :
                      futures[h].state \in {"FINISHED", "CANCELLED_AND_NOTIFIED"})
    /\ []((shutdown /\ worker.state = "none") => Len(futures) = 0)
    /\ [][worker.state = "exited" => worker'.state = "exited"]_vars

\* close() was called with one task in flight or queued and another
\* cancelled on the queue: the worker resolved the first, dropped the
\* second, took the wake-up and returned.
C19_Witness ==
    /\ worker.state = "exited"
    /\ work_queue = <<None>>
    /\ Len(futures) = 2
    /\ futures[1].state = "FINISHED"
    /\ futures[2].state = "CANCELLED_AND_NOTIFIED"

\* C20: close() on a dispatcher that is already closed does not raise and
\* changes nothing of it: its first statement finds the client closed and
\* leaves everything as it is; its second finds the executor shut down and
\* leaves it so, with the same futures, the same work items on the queue in
\* the same order (behind them one more wake-up) and the worker untouched.
C20_CloseIdempotent ==
    /\ [](ret.op = "close" => ret.raised = NoException)
    /\ [](\A c \in Callers :
             (/\ pc[c] = "idle"
              /\ shutdown
              /\ NoneCount + Cardinality({d \in Callers : pc[d] = "closing"})
                    < MaxCloses)
                => ENABLED close_client(c))
    /\ [][\A c \in Callers :
             (ClientCloseStep(c) /\ client = "CLOSED")
                => UNCHANGED <<client, shutdown, work_queue, threads, worker,
                               work_items, futures, calls, resolved, ret>>]_vars
    /\ [][\A c \in Callers :
             (ShutdownStep(c) /\ shutdown)
                => /\ shutdown'
                   /\ client' = "CLOSED"
                   /\ work_queue' = Append(work_queue, None)
                   /\ QueuedTasks(work_queue') = QueuedTasks(work_queue)
                   /\ ret'.raised = NoException
                   /\ UNCHANGED <<threads, worker, work_items, futures, calls,
                                  resolved>>]_vars

\* close() has returned twice while the first task's call is in flight
\* and the second task is queued: the task is still queued and pending,
\* with both wake-ups behind it.
C20_Witness ==
    /\ ret.op = "close"
    /\ NoneCount = 2
    /\ \A c \in Callers : pc[c] = "idle"
    /\ worker.state = "running"
    /\ work_queue = <<2, None, None>>
    /\ futures[2].state = "PENDING"

====
